---- MODULE Spec2Model ----
(***************************************************************************)
(* Model of the cottage reservation backend: the createBooking endpoints   *)
(* (HTTP function and web method), ReservationService.checkAvailability,   *)
(* createBooking, updateAvailability, calculateNights, updateBookingStatus *)
(* and createSafariBookings, over the Bookings, Availability and           *)
(* SafariBookings collections of the hosted document store.                *)
(*                                                                         *)
(* Every await of a store call is one step of a request, so the steps of   *)
(* concurrent requests interleave exactly where the JavaScript event loop  *)
(* lets them.  A store call either takes effect as a whole or rejects      *)
(* without effect (StoreFail).                                             *)
(*                                                                         *)
(* A Date is an integer number of ticks since day 0; a calendar day is     *)
(* TicksPerDay ticks (the code's 1000 * 3600 * 24 ms), in a time zone      *)
(* without daylight-saving shifts.                                         *)
(***************************************************************************)
EXTENDS Integers, FiniteSets, Sequences, TLC

VARIABLES bookings, availability, safariBookings, pc, req, created, outcome, form

vars == <<bookings, availability, safariBookings, pc, req, created, outcome, form>>

(* ------------------------------ bounds --------------------------------- *)

\* Requests per behaviour.
MaxRequests == 2

\* The latest date a request names, in ticks.
MaxTime == 4

\* Requests per behaviour of the status and safari operations.
MaxCalls == 3

\* Entries of one safariData array.
MaxSafaris == 2

Reqs == 1..MaxRequests

Calls == 1..MaxCalls

Times == 0..MaxTime

(* ------------------------------ catalog -------------------------------- *)

NULL == "null"

COTTAGES ==
    [ hornbill   |-> [maxAdults |-> 2, basePricePerNight |-> 5, isActive |-> TRUE],
      kingfisher |-> [maxAdults |-> 2, basePricePerNight |-> 7, isActive |-> TRUE],
      glass      |-> [maxAdults |-> 2, basePricePerNight |-> 9, isActive |-> FALSE] ]

PACKAGES ==
    [ basic  |-> [price |-> 3, includesSafari |-> FALSE, safariCount |-> 0],
      safari |-> [price |-> 4, includesSafari |-> TRUE, safariCount |-> 1] ]

BOOKING_STATUS ==
    [PENDING |-> "Pending", CONFIRMED |-> "Confirmed",
     CANCELLED |-> "Cancelled", COMPLETED |-> "Completed"]

SAFARI_STATUS ==
    [PENDING |-> "Pending", CONFIRMED |-> "Confirmed", CANCELLED |-> "Cancelled"]

\* wixData.get(collection, id) resolves to null when no item has that id.
IsNull(collection, id) == id \notin DOMAIN collection

(* ------------------------------- dates --------------------------------- *)

\* One day, the code's 1000 * 3600 * 24 ms, in ticks of half a day.
TicksPerDay == 2

\* Date.prototype.setHours(0, 0, 0, 0)
StartOfDay(t) == t - (t % TicksPerDay)

DayOf(t) == t \div TicksPerDay

\* Math.ceil(a / b) for b > 0
CeilDiv(a, b) == -((-a) \div b)

calculateNights(checkIn, checkOut) ==
    CeilDiv(checkOut - checkIn, TicksPerDay)

(* --------------------------- availability ------------------------------ *)

\* The query without the setHours(0, 0, 0, 0) normalisation of its bounds.
conflictingBookings_Unnormalized(store, cottageId, checkInDate, checkOutDate) ==
    { a \in store :
        /\ a.cottageId = cottageId
        /\ a.date >= checkInDate
        /\ a.date < checkOutDate
        /\ a.isAvailable = FALSE }

\* The query of checkAvailability: cottageId eq, date gte startDate,
\* date lt endDate, isAvailable eq false.
conflictingBookings(store, cottageId, checkInDate, checkOutDate) ==
    { a \in store :
        /\ a.cottageId = cottageId
        /\ a.date >= StartOfDay(checkInDate)
        /\ a.date < StartOfDay(checkOutDate)
        /\ a.isAvailable = FALSE }

\* The dates visited by the loop of updateAvailability:
\* for (date = start; date < end; date.setDate(date.getDate() + 1))
LoopDates(startDate, endDate) ==
    { d \in startDate..(endDate - 1) : (d - startDate) % TicksPerDay = 0 }

availabilityRecords(cottageId, startDate, endDate, bookingId, isAvailable) ==
    { [cottageId |-> cottageId, date |-> d, isAvailable |-> isAvailable,
       bookingId |-> IF isAvailable THEN 0 ELSE bookingId]
        : d \in LoopDates(startDate, endDate) }

(* ------------------------------ requests ------------------------------- *)

Endpoints == {"http", "web"}

ActiveCottages == {c \in DOMAIN COTTAGES : COTTAGES[c].isActive}

RequiredFields ==
    {"cottageId", "packageId", "checkInDate", "checkOutDate", "adults", "customerInfo"}

\* A well-formed createBooking payload; `absent` is the set of fields the
\* caller left out, `status` and `paymentStatus` are extra fields a caller may
\* send along.
Template ==
    [ kind |-> "createBooking", endpoint |-> "http", cottageId |-> "hornbill",
      packageId |-> "basic", checkInDate |-> 0, checkOutDate |-> TicksPerDay,
      adults |-> 2, absent |-> {}, status |-> NULL, paymentStatus |-> NULL ]

Ranges(T) == { x \in T \X T : x[1] < x[2] }

Midnights == { t \in Times : t % TicksPerDay = 0 }

\* Well-formed createBooking payloads over the dates of T.
WellFormedCreates(T) ==
    { [Template EXCEPT !.endpoint = e, !.cottageId = c,
                       !.checkInDate = x[1], !.checkOutDate = x[2]] :
        e \in Endpoints, c \in ActiveCottages, x \in Ranges(T) }

\* createBooking payloads that differ from the template in one field.
DeviantCreates ==
    UNION { { [Template EXCEPT !.endpoint = e, !.cottageId = c] : c \in {"glass", "unknown"} }
            \cup { [Template EXCEPT !.endpoint = e, !.packageId = "unknown"] }
            \cup { [Template EXCEPT !.endpoint = e, !.adults = a] : a \in {-1, 0, 3} }
            \cup { [Template EXCEPT !.endpoint = e, !.absent = {f}] : f \in RequiredFields }
            \cup { [Template EXCEPT !.endpoint = e, !.checkInDate = TicksPerDay,
                                    !.checkOutDate = o] : o \in {0, TicksPerDay} }
            \cup { [Template EXCEPT !.endpoint = e, !.status = "Confirmed",
                                    !.paymentStatus = "Paid"] }
          : e \in Endpoints }

\* checkCottageAvailability payloads.
CheckPayloads ==
    { [Template EXCEPT !.kind = "checkCottageAvailability", !.endpoint = e,
                       !.cottageId = c, !.checkInDate = i, !.checkOutDate = o] :
        e \in Endpoints, c \in DOMAIN COTTAGES \cup {"unknown"}, i \in Times, o \in Times }

\* calculateBookingCost payloads.
CostPayloads ==
    { [Template EXCEPT !.kind = "calculateBookingCost", !.endpoint = e,
                       !.cottageId = c, !.packageId = k,
                       !.checkInDate = i, !.checkOutDate = o] :
        e \in Endpoints, c \in DOMAIN COTTAGES \cup {"unknown"}, k \in {"basic", "unknown"},
        i \in Times, o \in Times }

\* The requests of the interleaved specification: createBooking over whole days.
CorePayloads ==
    WellFormedCreates(Midnights) \cup { p \in DeviantCreates : p.adults = 3 }

\* The requests of the one-at-a-time specification: times of day for the
\* template's cottage, whole days for the others.
SeqPayloads ==
    { p \in WellFormedCreates(Times) : p.cottageId = Template.cottageId }
        \cup WellFormedCreates(Midnights) \cup DeviantCreates \cup CheckPayloads

\* The requests of the quoting specification: bookings and quotes for the
\* same cottages, package and dates.
QuotePayloads ==
    { p \in WellFormedCreates(Times) : p.endpoint = "http" /\ p.cottageId = Template.cottageId }
        \cup { p \in WellFormedCreates(Midnights) : p.endpoint = "web" }
        \cup { p \in CostPayloads : p.endpoint = "http" }
        \cup { p \in CostPayloads : p.checkInDate = 0 /\ p.checkOutDate = TicksPerDay }

\* The requests of the specification of interleaved bookings of one cottage.
OverlapPayloads ==
    { p \in WellFormedCreates(Times) :
        p.endpoint = Template.endpoint /\ p.cottageId = Template.cottageId }

NoReq == [kind |-> NULL]

NoOutcome ==
    [ success |-> FALSE, error |-> NULL, bookingId |-> 0,
      isAvailable |-> FALSE, nights |-> 0, roomCost |-> 0, packageCost |-> 0,
      totalCost |-> 0, status |-> NULL ]

\* !payload.x of the endpoints' guards: the field is missing or falsy.
Falsy(p, f) == f \in p.absent \/ (f = "adults" /\ p.adults = 0)

\* The required-parameter guard of each endpoint.
MissingParameters(p) ==
    LET required ==
          IF p.kind = "checkCottageAvailability"
            THEN {"cottageId", "checkInDate", "checkOutDate"}
          ELSE IF p.kind = "calculateBookingCost"
            THEN {"cottageId", "packageId", "checkInDate", "checkOutDate"}
          ELSE IF p.endpoint = "http"
            THEN {"cottageId", "packageId", "checkInDate", "checkOutDate", "adults"}
          ELSE RequiredFields
    IN \E f \in required : Falsy(p, f)

\* The bookingData object the createBooking endpoints hand to the service
\* (customerInfo: payload.customerInfo || {} in the HTTP function).  It is
\* built field by field, so nothing else of the payload reaches the service.
BookingData(p) ==
    [ kind |-> p.kind, cottageId |-> p.cottageId, packageId |-> p.packageId,
      checkInDate |-> p.checkInDate, checkOutDate |-> p.checkOutDate,
      adults |-> p.adults, customerInfo |-> "customerInfo" \notin p.absent ]

Respond(r, out) ==
    /\ pc' = [pc EXCEPT ![r] = "done"]
    /\ req' = [req EXCEPT ![r] = NoReq]
    /\ created' = [created EXCEPT ![r] = 0]
    /\ outcome' = [outcome EXCEPT ![r] = out]

\* A failure response that leaves the error out.
Failure_NoMessage(msg) == NoOutcome

\* { success: false, error: msg }
Failure(msg) == [NoOutcome EXCEPT !.error = msg]

Goto(r, label) ==
    /\ pc' = [pc EXCEPT ![r] = label]
    /\ UNCHANGED <<req, created, outcome>>

\* No reservation page is open.
NoForm == [currentStep |-> 0]

Init ==
    /\ bookings = <<>>
    /\ availability = {}
    /\ safariBookings = <<>>
    /\ form = NoForm
    /\ pc = [r \in Reqs |-> "idle"]
    /\ req = [r \in Reqs |-> NoReq]
    /\ created = [r \in Reqs |-> 0]
    /\ outcome = [r \in Reqs |-> NoOutcome]

\* A request arrives at an endpoint, which validates the payload before its
\* first store call.  `pending` holds the responses not yet handed to their
\* callers.
Receive(r, p, pending) ==
    /\ pc[r] = "idle"
    /\ \A q \in DOMAIN pc : q < r => pc[q] # "idle"
    /\ UNCHANGED <<bookings, availability, safariBookings, created>>
    /\ IF MissingParameters(p)
         THEN /\ pc' = [pc EXCEPT ![r] = "done"]
              /\ outcome' = [pending EXCEPT ![r] = Failure("Missing required parameters")]
              /\ UNCHANGED req
       ELSE IF p.kind = "createBooking" /\ p.endpoint = "web" /\ p.adults < 1
         THEN /\ pc' = [pc EXCEPT ![r] = "done"]
              /\ outcome' = [pending EXCEPT ![r] = Failure("At least one adult is required")]
              /\ UNCHANGED req
       ELSE /\ pc' = [pc EXCEPT ![r] =
                        IF p.kind = "calculateBookingCost" THEN "costCottage"
                                                           ELSE "checkQuery"]
            /\ req' = [req EXCEPT ![r] = BookingData(p)]
            /\ outcome' = pending

InFlight(r) == pc[r] \notin {"idle", "done"}

\* Requests arrive while others are in flight.
Start(r) ==
    /\ UNCHANGED form
    /\ \E p \in CorePayloads : Receive(r, p, outcome)

\* Requests arrive one at a time: each caller has its response before the
\* next request is sent.
StartAlone(r) ==
    /\ \A q \in Reqs : ~InFlight(q)
    /\ UNCHANGED form
    /\ \E p \in SeqPayloads : Receive(r, p, [q \in Reqs |-> NoOutcome])

\* calculateBookingCost requests arrive one at a time.
StartCost(r) ==
    /\ \A q \in Reqs : ~InFlight(q)
    /\ UNCHANGED form
    /\ \E p \in CostPayloads : Receive(r, p, [q \in Reqs |-> NoOutcome])

\* The answer to a range that is not available: the data of
\* checkCottageAvailability, the conflict error of createBooking.
NotAvailable(r) ==
    IF req[r].kind = "checkCottageAvailability"
      THEN Respond(r, [NoOutcome EXCEPT !.success = TRUE, !.isAvailable = FALSE])
      ELSE Respond(r, Failure("Selected dates are not available for this cottage"))

\* checkAvailability, first await: the Availability query.
CheckQuery(r) ==
    /\ pc[r] = "checkQuery"
    /\ UNCHANGED <<bookings, availability, safariBookings, form>>
    /\ IF conflictingBookings(availability, req[r].cottageId,
                              req[r].checkInDate, req[r].checkOutDate) # {}
         THEN NotAvailable(r)
         ELSE Goto(r, "checkCottage")

\* The guard with the isActive test inverted.
NotFoundOrInactive_Inverted(cottageId) ==
    IsNull(COTTAGES, cottageId) \/ COTTAGES[cottageId].isActive

\* The guard without the isActive test.
NotFoundOrInactive_ExistenceOnly(cottageId) == IsNull(COTTAGES, cottageId)

\* !cottage || !cottage.isActive
NotFoundOrInactive(cottageId) ==
    IsNull(COTTAGES, cottageId) \/ ~COTTAGES[cottageId].isActive

\* checkAvailability, second await: the cottage must exist and be active.
CheckCottage(r) ==
    /\ pc[r] = "checkCottage"
    /\ UNCHANGED <<bookings, availability, safariBookings, form>>
    /\ IF NotFoundOrInactive(req[r].cottageId)
         THEN NotAvailable(r)
       ELSE IF req[r].kind = "checkCottageAvailability"
         THEN Respond(r, [NoOutcome EXCEPT !.success = TRUE, !.isAvailable = TRUE])
       ELSE Goto(r, "getCottage")

\* The guest-count guard off by one.
TooManyAdults_OffByOne(adults, cottageId) == adults > COTTAGES[cottageId].maxAdults + 1

\* bookingData.adults > cottage.maxAdults
TooManyAdults(adults, cottageId) == adults > COTTAGES[cottageId].maxAdults

\* ReservationService.createBooking, first await: fetch the cottage and
\* validate the guest count.  Reading maxAdults of null throws a TypeError.
GetCottage(r) ==
    /\ pc[r] = "getCottage"
    /\ UNCHANGED <<bookings, availability, safariBookings, form>>
    /\ IF IsNull(COTTAGES, req[r].cottageId)
         THEN Respond(r, Failure("TypeError"))
       ELSE IF TooManyAdults(req[r].adults, req[r].cottageId)
         THEN Respond(r, Failure("Maximum adults allowed per cottage"))
       ELSE Goto(r, "getPackage")

\* getPackageById followed by a cost calculation that tolerates a missing
\* package.
GetPackage_Unchecked(r) ==
    /\ pc[r] = "getPackage"
    /\ UNCHANGED <<bookings, availability, safariBookings, form>>
    /\ Goto(r, "insert")

\* ReservationService.createBooking, second await: getPackageById.  Reading
\* price of null throws a TypeError.
GetPackage(r) ==
    /\ pc[r] = "getPackage"
    /\ UNCHANGED <<bookings, availability, safariBookings, form>>
    /\ IF IsNull(PACKAGES, req[r].packageId)
         THEN Respond(r, Failure("TypeError"))
         ELSE Goto(r, "insert")

\* cottage.basePricePerNight * nights
RoomCost(cottageId, checkIn, checkOut) ==
    COTTAGES[cottageId].basePricePerNight * calculateNights(checkIn, checkOut)

\* packageData.price
PackageCost(packageId) == PACKAGES[packageId].price

\* The total with the package price charged once per night.
TotalCost_PackagePerNight(cottageId, packageId, checkIn, checkOut) ==
    (COTTAGES[cottageId].basePricePerNight + PACKAGES[packageId].price)
        * calculateNights(checkIn, checkOut)

\* roomCost + packageCost
TotalCost(cottageId, packageId, checkIn, checkOut) ==
    RoomCost(cottageId, checkIn, checkOut) + PackageCost(packageId)

\* The booking object with the status of a confirmed reservation.
NewBooking_Confirmed(b) ==
    [ cottageId |-> b.cottageId, packageId |-> b.packageId,
      checkInDate |-> b.checkInDate, checkOutDate |-> b.checkOutDate,
      adults |-> b.adults, customerInfo |-> b.customerInfo,
      totalCost |-> TotalCost(b.cottageId, b.packageId, b.checkInDate, b.checkOutDate),
      status |-> BOOKING_STATUS.CONFIRMED, paymentStatus |-> "Pending" ]

\* The booking object of createBooking: the bookingData fields, then
\* totalCost, status and paymentStatus, which override any field of the
\* same name.
NewBooking(b) ==
    [ cottageId |-> b.cottageId, packageId |-> b.packageId,
      checkInDate |-> b.checkInDate, checkOutDate |-> b.checkOutDate,
      adults |-> b.adults, customerInfo |-> b.customerInfo,
      totalCost |-> TotalCost(b.cottageId, b.packageId, b.checkInDate, b.checkOutDate),
      status |-> BOOKING_STATUS.PENDING, paymentStatus |-> "Pending" ]

\* wixData.insert(COLLECTIONS.BOOKINGS, booking): the store assigns the _id.
InsertBooking(r) ==
    /\ pc[r] = "insert"
    /\ bookings' = Append(bookings, NewBooking(req[r]))
    /\ created' = [created EXCEPT ![r] = Len(bookings) + 1]
    /\ pc' = [pc EXCEPT ![r] = "reserve"]
    /\ UNCHANGED <<availability, safariBookings, req, outcome, form>>

\* updateAvailability(cottageId, checkInDate, checkOutDate, createdBooking._id, false)
\* and the endpoint's success response.
UpdateAvailability(r) ==
    /\ pc[r] = "reserve"
    /\ availability' = availability \cup
         availabilityRecords(req[r].cottageId, req[r].checkInDate,
                             req[r].checkOutDate, created[r], FALSE)
    /\ UNCHANGED <<bookings, safariBookings, form>>
    /\ Respond(r, [NoOutcome EXCEPT !.success = TRUE, !.bookingId = created[r]])

\* calculateBookingCost, first await: wixData.get of the cottage.
CostGetCottage(r) ==
    /\ pc[r] = "costCottage"
    /\ UNCHANGED <<bookings, availability, safariBookings, form>>
    /\ Goto(r, "costPackage")

\* calculateBookingCost, second await: wixData.get of the package, then the
\* not-found guard and the cost breakdown.
CostGetPackage(r) ==
    /\ pc[r] = "costPackage"
    /\ UNCHANGED <<bookings, availability, safariBookings, form>>
    /\ IF IsNull(COTTAGES, req[r].cottageId) \/ IsNull(PACKAGES, req[r].packageId)
         THEN Respond(r, Failure("Cottage or package not found"))
         ELSE Respond(r, [NoOutcome EXCEPT
                 !.success = TRUE,
                 !.nights = calculateNights(req[r].checkInDate, req[r].checkOutDate),
                 !.roomCost = RoomCost(req[r].cottageId, req[r].checkInDate,
                                       req[r].checkOutDate),
                 !.packageCost = PackageCost(req[r].packageId),
                 !.totalCost = TotalCost(req[r].cottageId, req[r].packageId,
                                         req[r].checkInDate, req[r].checkOutDate)])

\* The message the catch blocks give a rejected store call.
FailureMessage(label) ==
    CASE label \in {"checkQuery", "checkCottage"} -> "Failed to check availability"
      [] label = "getPackage" -> "Package not found"
      [] label = "reserve" -> "Failed to update availability"
      [] label = "updateStatus" -> "Failed to update booking status"
      [] label = "insertSafaris" -> "Failed to create safari bookings"
      [] OTHER -> "StoreError"

\* A rejected store call whose handler removes the booking inserted before a
\* failed updateAvailability.
StoreFail_Compensating(r) ==
    /\ InFlight(r)
    /\ bookings' = IF pc[r] = "reserve"
                     THEN SubSeq(bookings, 1, created[r] - 1)
                          \o SubSeq(bookings, created[r] + 1, Len(bookings))
                     ELSE bookings
    /\ UNCHANGED <<availability, safariBookings, form>>
    /\ Respond(r, Failure(FailureMessage(pc[r])))

\* A store call rejects: the service's catch block rethrows and the endpoint's
\* catch block answers success=false.  Nothing is undone.
StoreFail(r) ==
    /\ InFlight(r)
    /\ UNCHANGED <<bookings, availability, safariBookings, form>>
    /\ Respond(r, Failure(FailureMessage(pc[r])))

(* ----------------------- status and safari calls ----------------------- *)

\* A booking _id is its position in the collection; 0 stands for the empty
\* or missing id of a payload.
BookingIds == 0..2

\* The status strings callers send: the four of BOOKING_STATUS, one that is
\* none of them, and the empty string.
RequestedStatuses ==
    {BOOKING_STATUS[k] : k \in DOMAIN BOOKING_STATUS} \cup {"Refunded", ""}

StatusPayloads ==
    { [kind |-> "updateBookingStatus", endpoint |-> e, bookingId |-> b, status |-> s] :
        e \in Endpoints, b \in BookingIds, s \in RequestedStatuses }

\* An entry {date, time, type?} of a safariData array; NULL is an omitted type.
SafariEntry(type) == [date |-> 0, time |-> "Morning", type |-> type]

\* The arrays of up to MaxSafaris entries whose first m entries omit the type.
SafariArrays ==
    { [k \in 1..n |-> SafariEntry(IF k <= m THEN NULL ELSE "Evening")] :
        n \in 0..MaxSafaris, m \in 0..MaxSafaris }

\* isArray is FALSE for a payload whose safariData is missing or not an array.
SafariPayloads ==
    { [kind |-> "createSafariBookings", endpoint |-> e, bookingId |-> b,
       isArray |-> TRUE, safariData |-> d] :
        e \in Endpoints, b \in BookingIds, d \in SafariArrays }
    \cup { [kind |-> "createSafariBookings", endpoint |-> e, bookingId |-> 1,
            isArray |-> FALSE, safariData |-> <<>>] : e \in Endpoints }

\* The createBooking requests that accompany the status and safari calls.
AdminCreates == { [Template EXCEPT !.cottageId = c] : c \in ActiveCottages }

AdminInit ==
    /\ bookings = <<>>
    /\ availability = {}
    /\ safariBookings = <<>>
    /\ form = NoForm
    /\ pc = [r \in Calls |-> "idle"]
    /\ req = [r \in Calls |-> NoReq]
    /\ created = [r \in Calls |-> 0]
    /\ outcome = [r \in Calls |-> NoOutcome]

\* No request is in flight and r is the next one to arrive.
NextCall(r) ==
    /\ pc[r] = "idle"
    /\ \A q \in DOMAIN pc : ~InFlight(q) /\ (q < r => pc[q] # "idle")

StartCreate(r) ==
    /\ NextCall(r)
    /\ UNCHANGED form
    /\ \E p \in AdminCreates : Receive(r, p, outcome)

\* The updateBookingStatus endpoints: !bookingId || !status
StartStatus(r) ==
    /\ NextCall(r)
    /\ UNCHANGED <<bookings, availability, safariBookings, created, form>>
    /\ \E p \in StatusPayloads :
         IF p.bookingId = 0 \/ p.status = ""
           THEN /\ pc' = [pc EXCEPT ![r] = "done"]
                /\ outcome' = [outcome EXCEPT ![r] =
                       Failure("Missing required parameters: bookingId, status")]
                /\ UNCHANGED req
           ELSE /\ pc' = [pc EXCEPT ![r] = "updateStatus"]
                /\ req' = [req EXCEPT ![r] =
                       [kind |-> p.kind, bookingId |-> p.bookingId, status |-> p.status]]
                /\ UNCHANGED outcome

\* The createSafariBookings endpoints: !bookingId || !Array.isArray(safariData)
StartSafaris(r) ==
    /\ NextCall(r)
    /\ UNCHANGED <<bookings, availability, safariBookings, created, form>>
    /\ \E p \in SafariPayloads :
         IF p.bookingId = 0 \/ ~p.isArray
           THEN /\ pc' = [pc EXCEPT ![r] = "done"]
                /\ outcome' = [outcome EXCEPT ![r] =
                       Failure("Missing required parameters: bookingId, safariData (array)")]
                /\ UNCHANGED req
           ELSE /\ pc' = [pc EXCEPT ![r] = "insertSafaris"]
                /\ req' = [req EXCEPT ![r] =
                       [kind |-> p.kind, bookingId |-> p.bookingId,
                        safariData |-> p.safariData]]
                /\ UNCHANGED outcome

\* The item handed to wixData.update: { _id: bookingId, status, updatedDate }.
\* The _id is the item's position and updatedDate is not modelled.
updateData(status) == [status |-> status]

\* An update that leaves a cancelled booking as it is.
WixUpdate_KeepsCancelled(store, id, item) ==
    IF store[id].status = "Cancelled" THEN store ELSE [store EXCEPT ![id] = item]

\* An update that adds the item to the collection instead of replacing the
\* one with its _id.
WixUpdate_Inserting(store, id, item) == Append(store, item)

\* wixData.update(collection, item) replaces the item that has the _id of
\* `item` by `item`: the fields the old item had and `item` lacks are lost.
WixUpdate(store, id, item) == [store EXCEPT ![id] = item]

\* A status update that also releases the dates of a cancelled booking.
UpdateStatus_Releasing(r) ==
    /\ pc[r] = "updateStatus"
    /\ UNCHANGED <<safariBookings, form>>
    /\ availability' = IF req[r].status = BOOKING_STATUS.CANCELLED
                         THEN { a \in availability : a.bookingId # req[r].bookingId }
                         ELSE availability
    /\ IF req[r].bookingId \in 1..Len(bookings)
         THEN /\ bookings' = [bookings EXCEPT ![req[r].bookingId] =
                                  [status |-> req[r].status]]
              /\ Respond(r, [NoOutcome EXCEPT !.success = TRUE,
                                              !.bookingId = req[r].bookingId,
                                              !.status = req[r].status])
         ELSE /\ UNCHANGED bookings
              /\ Respond(r, Failure("Failed to update booking status"))

\* ReservationService.updateBookingStatus: its one store call and the
\* endpoint's response.  wixData.update rejects when no item has the _id.
UpdateStatus(r) ==
    /\ pc[r] = "updateStatus"
    /\ UNCHANGED <<availability, safariBookings, form>>
    /\ IF req[r].bookingId \in 1..Len(bookings)
         THEN /\ bookings' = WixUpdate(bookings, req[r].bookingId,
                                       updateData(req[r].status))
              /\ Respond(r, [NoOutcome EXCEPT !.success = TRUE,
                                              !.bookingId = req[r].bookingId,
                                              !.status = req[r].status])
         ELSE /\ UNCHANGED bookings
              /\ Respond(r, Failure("Failed to update booking status"))

\* The safari record without the default of its type.
safariBooking_NoDefault(bookingId, safari) ==
    [ bookingId |-> bookingId, safariDate |-> safari.date, safariTime |-> safari.time,
      status |-> SAFARI_STATUS.PENDING, safariType |-> safari.type ]

\* One element of safariData.map(...): safariType is safari.type || 'Standard'.
safariBooking(bookingId, safari) ==
    [ bookingId |-> bookingId, safariDate |-> safari.date, safariTime |-> safari.time,
      status |-> SAFARI_STATUS.PENDING,
      safariType |-> IF safari.type = NULL THEN "Standard" ELSE safari.type ]

\* ReservationService.createSafariBookings: the bulkInsert of the mapped
\* entries and the endpoint's response.
InsertSafaris(r) ==
    /\ pc[r] = "insertSafaris"
    /\ safariBookings' = safariBookings \o
         [k \in 1..Len(req[r].safariData) |->
             safariBooking(req[r].bookingId, req[r].safariData[k])]
    /\ UNCHANGED <<bookings, availability, form>>
    /\ Respond(r, [NoOutcome EXCEPT !.success = TRUE, !.bookingId = req[r].bookingId])

(* ------------------------- reservation wizard -------------------------- *)

\* The moment the page is used: every date of the date pickers is later.
Today == -1

\* new Date(null), the value of a date the visitor has not picked.
Epoch == -2

\* The values of the date pickers: midnights.
CheckInDates == {0}

CheckOutDates == {TicksPerDay}

\* The options of #cottageSelection (getAllCottages: the active cottages)
\* and of #packageSelection.
CottageOptions == ActiveCottages

PackageOptions == DOMAIN PACKAGES

\* The body of the availability request, kept by the pending checkAvailability.
NoCheck == [cottageId |-> "", checkInDate |-> Epoch, checkOutDate |-> Epoch]

\* The constructor's fields, the buttons and sections the code enables, shows
\* or hides, and the position of the pending fetch.  availabilityResult is
\* TRUE when a result with isAvailable is stored; checkedFor is the request
\* that result answered.  awaiting names the fetch whose response is
\* pending, slot its request.
NewForm ==
    [ currentStep |-> 1, cottageId |-> "", checkInDate |-> Epoch,
      checkOutDate |-> Epoch, adults |-> 1, packageId |-> "", safariData |-> <<>>,
      availabilityResult |-> FALSE, checkedFor |-> NoCheck, sent |-> NoCheck,
      nextEnabled |-> TRUE, checkEnabled |-> TRUE, safariShown |-> TRUE,
      awaiting |-> "none", slot |-> 0, shown |-> "form" ]

\* The page as it loads: the code neither disables a button nor hides the
\* safari section before the first event, so they start enabled and visible.
WizardInit ==
    /\ bookings = <<>>
    /\ availability = {}
    /\ safariBookings = <<>>
    /\ pc = [r \in Calls |-> "idle"]
    /\ req = [r \in Calls |-> NoReq]
    /\ created = [r \in Calls |-> 0]
    /\ outcome = [r \in Calls |-> NoOutcome]
    /\ form = NewForm

Backend == <<bookings, availability, safariBookings, pc, req, created>>

\* The pending fetch resolves: its response passes to the form.
Consume == outcome' = [outcome EXCEPT ![form.slot] = NoOutcome]

\* The form is on screen with step n showing.
OnStep(n) == form.shown = "form" /\ form.currentStep = n

\* validateDates: check-in after today, check-out after check-in, at least
\* one night.
validateDates(checkIn, checkOut) ==
    /\ ~(checkIn <= Today)
    /\ ~(checkOut <= checkIn)
    /\ ~(calculateNights(checkIn, checkOut) < 1)

\* #cottageSelection onChange
OnCottageChange ==
    /\ OnStep(1)
    /\ \E c \in CottageOptions : form' = [form EXCEPT !.cottageId = c]
    /\ UNCHANGED <<Backend, outcome>>

\* #checkInDate onChange, with the button update of validateDates
OnCheckInChange ==
    /\ OnStep(1)
    /\ \E t \in CheckInDates :
         form' = [form EXCEPT !.checkInDate = t,
                              !.checkEnabled = validateDates(t, form.checkOutDate)]
    /\ UNCHANGED <<Backend, outcome>>

\* #checkOutDate onChange, with the button update of validateDates
OnCheckOutChange ==
    /\ OnStep(1)
    /\ \E t \in CheckOutDates :
         form' = [form EXCEPT !.checkOutDate = t,
                              !.checkEnabled = validateDates(form.checkInDate, t)]
    /\ UNCHANGED <<Backend, outcome>>

\* The body of the checkCottageAvailability fetch; an empty cottageId is
\* falsy at the endpoint.
CheckBody ==
    [Template EXCEPT !.kind = "checkCottageAvailability",
                     !.cottageId = form.cottageId,
                     !.checkInDate = form.checkInDate,
                     !.checkOutDate = form.checkOutDate,
                     !.absent = IF form.cottageId = "" THEN {"cottageId"} ELSE {}]

\* #checkAvailabilityBtn onClick: checkAvailability up to its fetch.  With
\* adults fixed at 1, validateGuestCount passes.
OnCheckClick ==
    /\ OnStep(1)
    /\ form.checkEnabled
    /\ form.awaiting = "none"
    /\ validateDates(form.checkInDate, form.checkOutDate)
    /\ \E r \in Calls :
         /\ NextCall(r)
         /\ Receive(r, CheckBody, outcome)
         /\ form' = [form EXCEPT !.awaiting = "check", !.slot = r,
                                  !.checkEnabled = FALSE,
                                  !.sent = [cottageId |-> form.cottageId,
                                            checkInDate |-> form.checkInDate,
                                            checkOutDate |-> form.checkOutDate]]

\* checkAvailability after its fetch: the result is stored and #nextBtn
\* enabled on success, #nextBtn disabled otherwise; finally the check button
\* is enabled again.
OnCheckResponse ==
    /\ form.awaiting = "check"
    /\ pc[form.slot] = "done"
    /\ form' = IF outcome[form.slot].success /\ outcome[form.slot].isAvailable
                 THEN [form EXCEPT !.availabilityResult = TRUE,
                                   !.checkedFor = form.sent,
                                   !.nextEnabled = TRUE, !.checkEnabled = TRUE,
                                   !.awaiting = "none", !.sent = NoCheck]
                 ELSE [form EXCEPT !.nextEnabled = FALSE, !.checkEnabled = TRUE,
                                   !.awaiting = "none", !.sent = NoCheck]
    /\ Consume
    /\ UNCHANGED Backend

validateStep1 ==
    /\ form.cottageId # ""
    /\ form.checkInDate # Epoch /\ form.checkOutDate # Epoch
    /\ form.availabilityResult

validateStep2 == form.packageId # ""

validateCurrentStep ==
    CASE form.currentStep = 1 -> validateStep1
      [] form.currentStep = 2 -> validateStep2
      [] OTHER -> TRUE

\* The last step of the wizard.
totalSteps == 4

\* #nextBtn onClick: nextStep.  The cost summary it fetches on reaching the
\* last step is display only and not part of the model.
OnNextClick ==
    /\ form.shown = "form"
    /\ form.nextEnabled
    /\ form.currentStep < totalSteps
    /\ validateCurrentStep
    /\ form' = [form EXCEPT !.currentStep = form.currentStep + 1]
    /\ UNCHANGED <<Backend, outcome>>

\* #prevBtn onClick: previousStep
OnPrevClick ==
    /\ form.shown = "form"
    /\ form.currentStep > 1
    /\ form' = [form EXCEPT !.currentStep = form.currentStep - 1]
    /\ UNCHANGED <<Backend, outcome>>

\* #packageSelection onChange, with updatePackageInfo showing or hiding the
\* safari section
OnPackageChange ==
    /\ OnStep(2)
    /\ \E k \in PackageOptions :
         form' = [form EXCEPT !.packageId = k,
                              !.safariShown = PACKAGES[k].includesSafari]
    /\ UNCHANGED <<Backend, outcome>>

\* #safariDate or #safariTime onChange with both values set: updateSafariData
OnSafariChange ==
    /\ OnStep(3)
    /\ form.safariShown
    /\ Len(form.safariData) < MaxSafaris
    /\ form' = [form EXCEPT !.safariData = Append(form.safariData, SafariEntry("Standard"))]
    /\ UNCHANGED <<Backend, outcome>>

\* The body of the createBooking fetch: bookingData and the customer info.
BookingBody ==
    [Template EXCEPT !.cottageId = form.cottageId, !.packageId = form.packageId,
                     !.checkInDate = form.checkInDate,
                     !.checkOutDate = form.checkOutDate,
                     !.adults = form.adults]

\* #proceedToPaymentBtn onClick: proceedToPayment up to its fetch
OnProceedClick ==
    /\ OnStep(totalSteps)
    /\ form.awaiting = "none"
    /\ \E r \in Calls :
         /\ NextCall(r)
         /\ Receive(r, BookingBody, outcome)
         /\ form' = [form EXCEPT !.awaiting = "booking", !.slot = r]

\* The createSafariBookings fetch of the form arrives at its endpoint.
SendSafaris(r, bookingId) ==
    /\ NextCall(r)
    /\ pc' = [pc EXCEPT ![r] = "insertSafaris"]
    /\ req' = [req EXCEPT ![r] =
           [kind |-> "createSafariBookings", bookingId |-> bookingId,
            safariData |-> form.safariData]]
    /\ UNCHANGED <<bookings, availability, safariBookings, created>>

\* proceedToPayment after the createBooking fetch: on success the safari
\* bookings are requested when there are entries, else the success message
\* replaces the form; on failure an error message appears over the form.
OnBookingResponse ==
    /\ form.awaiting = "booking"
    /\ pc[form.slot] = "done"
    /\ Consume
    /\ IF outcome[form.slot].success
         THEN IF Len(form.safariData) > 0
                THEN \E r \in Calls :
                       /\ SendSafaris(r, outcome[form.slot].bookingId)
                       /\ form' = [form EXCEPT !.awaiting = "safaris", !.slot = r]
                ELSE /\ form' = [form EXCEPT !.awaiting = "none", !.shown = "success"]
                     /\ UNCHANGED Backend
         ELSE /\ form' = [form EXCEPT !.awaiting = "none"]
              /\ UNCHANGED Backend

\* A flow that reports the failure of the safari request.
OnSafariResponse_Reporting ==
    /\ form.awaiting = "safaris"
    /\ pc[form.slot] = "done"
    /\ form' = [form EXCEPT !.awaiting = "none",
                            !.shown = IF outcome[form.slot].success THEN "success"
                                                                     ELSE "form"]
    /\ Consume
    /\ UNCHANGED Backend

\* createSafariBookings of the form after its fetch, and the rest of
\* proceedToPayment: a failure is logged and the success message is shown.
OnSafariResponse ==
    /\ form.awaiting = "safaris"
    /\ pc[form.slot] = "done"
    /\ form' = [form EXCEPT !.awaiting = "none", !.shown = "success"]
    /\ Consume
    /\ UNCHANGED Backend

Progress(r) ==
    \/ CheckQuery(r)
    \/ CheckCottage(r)
    \/ GetCottage(r)
    \/ GetPackage(r)
    \/ InsertBooking(r)
    \/ UpdateAvailability(r)
    \/ StoreFail(r)

Next == \E r \in Reqs : Start(r) \/ Progress(r)

Spec == Init /\ [][Next]_vars

SeqNext == \E r \in Reqs : StartAlone(r) \/ Progress(r)

SeqSpec == Init /\ [][SeqNext]_vars

CostNext ==
    \E r \in Reqs : StartCost(r) \/ CostGetCottage(r) \/ CostGetPackage(r) \/ StoreFail(r)

CostSpec == Init /\ [][CostNext]_vars

\* createBooking requests for one cottage, with times of day, arrive while
\* others are in flight.
StartOverlapping(r) ==
    /\ UNCHANGED form
    /\ \E p \in OverlapPayloads : Receive(r, p, outcome)

OverlapNext == \E r \in Reqs : StartOverlapping(r) \/ Progress(r)

OverlapSpec == Init /\ [][OverlapNext]_vars

\* createBooking and calculateBookingCost requests, one at a time.
StartQuote(r) ==
    /\ \A q \in Reqs : ~InFlight(q)
    /\ UNCHANGED form
    /\ \E p \in QuotePayloads : Receive(r, p, [q \in Reqs |-> NoOutcome])

QuoteNext ==
    \E r \in Reqs :
        StartQuote(r) \/ Progress(r) \/ CostGetCottage(r) \/ CostGetPackage(r)

QuoteSpec == Init /\ [][QuoteNext]_vars

\* One visitor goes through the wizard; the endpoints serve its requests.
WizardNext ==
    \/ OnCottageChange
    \/ OnCheckInChange
    \/ OnCheckOutChange
    \/ OnCheckClick
    \/ OnCheckResponse
    \/ OnNextClick
    \/ OnPrevClick
    \/ OnPackageChange
    \/ OnSafariChange
    \/ OnProceedClick
    \/ OnBookingResponse
    \/ OnSafariResponse
    \/ \E r \in Calls : Progress(r) \/ InsertSafaris(r)

WizardSpec == WizardInit /\ [][WizardNext]_vars

\* createBooking and updateBookingStatus requests, one at a time; the
\* responses stay with their callers.
StatusNext ==
    \E r \in Calls :
        StartCreate(r) \/ StartStatus(r) \/ Progress(r) \/ UpdateStatus(r)

StatusSpec == AdminInit /\ [][StatusNext]_vars

\* createBooking and createSafariBookings requests, one at a time.
SafariNext ==
    \E r \in Calls :
        StartCreate(r) \/ StartSafaris(r) \/ Progress(r) \/ InsertSafaris(r)

SafariSpec == AdminInit /\ [][SafariNext]_vars

(* ------------------------------- claims -------------------------------- *)

ConflictError == "Selected dates are not available for this cottage"

\* The unavailable records of a cottage whose calendar day lies from the
\* check-in day inclusive to the check-out day exclusive.
RecordsInRange(store, cottageId, checkIn, checkOut) ==
    { a \in store :
        /\ a.cottageId = cottageId
        /\ ~a.isAvailable
        /\ DayOf(checkIn) <= DayOf(a.date)
        /\ DayOf(a.date) < DayOf(checkOut) }

\* Request r takes a step.
Moves(r) == pc'[r] # pc[r]

Succeeded(r) == pc[r] = "done" /\ outcome[r].success /\ outcome[r].bookingId > 0

\* C1: of two createBooking requests for the same cottage and the same date
\* range, run in any interleaving, never both succeed.
C1_NotBothSucceed ==
    \A r1, r2 \in Reqs :
        (r1 # r2 /\ Succeeded(r1) /\ Succeeded(r2)) =>
            LET b1 == bookings[outcome[r1].bookingId]
                b2 == bookings[outcome[r2].bookingId]
            IN ~( /\ b1.cottageId = b2.cottageId
                  /\ b1.checkInDate = b2.checkInDate
                  /\ b1.checkOutDate = b2.checkOutDate )

\* C2: in every reachable state, each (cottageId, calendar date) has at most
\* one Availability record with isAvailable = false.
C2_OneUnavailableRecordPerDate ==
    \A a, b \in availability :
        ( /\ ~a.isAvailable /\ ~b.isAvailable
          /\ a.cottageId = b.cottageId
          /\ DayOf(a.date) = DayOf(b.date) ) => a = b

\* C3: right after a createBooking request succeeds for cottage C over
\* [checkIn, checkOut), the range checks as unavailable, exactly N = nights
\* Availability records of C are dated in the range, each unavailable and
\* owned by the new booking, and the new booking is in the Bookings collection.
C3_SuccessReservesExactlyItsNights ==
    [][ \A r \in Reqs :
          (pc[r] = "reserve" /\ pc'[r] = "done" /\ outcome'[r].success) =>
            LET c == req[r].cottageId
                checkIn == req[r].checkInDate
                checkOut == req[r].checkOutDate
                inRange == { a \in availability' :
                               a.cottageId = c /\ checkIn <= a.date /\ a.date < checkOut }
            IN /\ conflictingBookings(availability', c, checkIn, checkOut) # {}
               /\ Cardinality(inRange) = calculateNights(checkIn, checkOut)
               /\ \A a \in inRange : ~a.isAvailable /\ a.bookingId = outcome'[r].bookingId
               /\ outcome'[r].bookingId \in DOMAIN bookings'
               /\ Len(bookings') = Len(bookings) ]_vars

\* The calendar days the Availability collection holds for a booking.
ReservedDays(id) == { DayOf(a.date) : a \in { x \in availability : x.bookingId = id } }

\* The stay of a booking ends on a later calendar day than it begins.
SpansANight(b) == DayOf(b.checkInDate) < DayOf(b.checkOutDate)

\* C4: with requests processed one at a time, no two bookings of the same
\* cottage that reserved availability share a calendar day (stated for stays
\* that end on a later calendar day than they begin).
C4_NoSharedDayOneAtATime ==
    \A i, j \in DOMAIN bookings :
        ( /\ i # j
          /\ bookings[i].cottageId = bookings[j].cottageId
          /\ SpansANight(bookings[i]) /\ SpansANight(bookings[j]) ) =>
            ReservedDays(i) \cap ReservedDays(j) = {}

\* adults greater than the cottage's maxAdults
OverCapacity(b) ==
    /\ b.kind = "createBooking"
    /\ b.cottageId \in DOMAIN COTTAGES
    /\ b.adults > COTTAGES[b.cottageId].maxAdults

C6_FailedReservationLeavesBooking ==
    [][ \A r \in Reqs :
          (pc[r] = "reserve" /\ pc'[r] = "done" /\ ~outcome'[r].success) =>
            /\ outcome'[r].error = "Failed to update availability"
            /\ bookings' = bookings
            /\ created[r] \in DOMAIN bookings'
            /\ bookings'[created[r]] = NewBooking(req[r])
            /\ availability' = availability
            /\ \A a \in availability' : a.bookingId # created[r]
            /\ conflictingBookings(availability', req[r].cottageId,
                                   req[r].checkInDate, req[r].checkOutDate) = {} ]_vars

C6_Witness ==
    \E r \in Reqs :
        /\ pc[r] = "done"
        /\ outcome[r].error = "Failed to update availability"
        /\ \E i \in DOMAIN bookings :
             /\ bookings[i].checkInDate < bookings[i].checkOutDate
             /\ \A a \in availability : a.bookingId # i

\* The step in which checkAvailability of request r returns, given that its
\* query ran against the present store.
CheckReturns(r) ==
    /\ req[r].kind = "checkCottageAvailability"
    /\ pc[r] \in {"checkQuery", "checkCottage"}
    /\ pc'[r] = "done"
    /\ outcome'[r].success

\* C7 as stated: a check of a cottage with no unavailable record in
\* [checkIn, checkOut) returns isAvailable = true.
C7_NoRecordsMeansAvailable ==
    [][ \A r \in Reqs :
          ( /\ CheckReturns(r)
            /\ RecordsInRange(availability, req[r].cottageId,
                              req[r].checkInDate, req[r].checkOutDate) = {} )
            => outcome'[r].isAvailable ]_vars

\* C7 amended: a check of an existing, active cottage with no unavailable
\* record in [checkIn, checkOut) returns isAvailable = true.
C7_NoRecordsActiveMeansAvailable ==
    [][ \A r \in Reqs :
          ( /\ CheckReturns(r)
            /\ req[r].cottageId \in DOMAIN COTTAGES
            /\ COTTAGES[req[r].cottageId].isActive
            /\ RecordsInRange(availability, req[r].cottageId,
                              req[r].checkInDate, req[r].checkOutDate) = {} )
            => outcome'[r].isAvailable ]_vars

C7_Witness ==
    \E r \in Reqs :
        /\ pc[r] = "done"
        /\ outcome[r].success
        /\ outcome[r].isAvailable
        /\ availability # {}

\* C8: the Availability query of checkAvailability answers not-available
\* exactly when some unavailable record of that cottage is dated from the
\* check-in day inclusive to the check-out day exclusive; records of other
\* cottages, of earlier days and of the check-out day do not count.
C8_QueryIsHalfOpenDayRange ==
    [][ \A r \in Reqs :
          (pc[r] = "checkQuery" /\ Moves(r)
             /\ ~(pc'[r] = "done" /\ outcome'[r].error = FailureMessage("checkQuery"))) =>
            LET hit == RecordsInRange(availability, req[r].cottageId,
                                      req[r].checkInDate, req[r].checkOutDate) # {}
            IN /\ hit => /\ pc'[r] = "done"
                         /\ ~outcome'[r].isAvailable
                         /\ req[r].kind = "createBooking" =>
                              outcome'[r].error = ConflictError
               /\ ~hit => pc'[r] = "checkCottage" ]_vars

\* A query passed although the cottage has a record on the check-out day,
\* a record before the check-in day, and another cottage has one in range.
C8_Witness ==
    \E r \in Reqs :
        /\ pc[r] = "checkCottage"
        /\ req[r].checkInDate < req[r].checkOutDate
        /\ \E a \in availability :
             /\ a.cottageId = req[r].cottageId
             /\ ~a.isAvailable
             /\ DayOf(a.date) = DayOf(req[r].checkOutDate)

\* C9: the dates a booking reserves are the days from its check-in day
\* inclusive to its check-out day exclusive, whatever the times of day
\* (stated for stays that end on a later calendar day than they begin).
C9_ReservedDaysIgnoreTimeOfDay ==
    \A a \in availability :
        (a.bookingId \in DOMAIN bookings /\ SpansANight(bookings[a.bookingId])) =>
            LET b == bookings[a.bookingId]
            IN /\ DayOf(b.checkInDate) <= DayOf(a.date)
               /\ DayOf(a.date) < DayOf(b.checkOutDate)

\* C10: for checkOut on a later day than checkIn, calculateNights is the
\* number of whole days between the two dates after their times of day are
\* zeroed.
C10_NightsOfMidnightNormalizedDates ==
    [][ \A r \in Reqs :
          ( /\ pc[r] = "costPackage" /\ pc'[r] = "done" /\ outcome'[r].success
            /\ DayOf(req[r].checkInDate) < DayOf(req[r].checkOutDate) ) =>
            outcome'[r].nights =
                CeilDiv(StartOfDay(req[r].checkOutDate) - StartOfDay(req[r].checkInDate),
                        TicksPerDay) ]_vars

\* The last booking of the collection, the one an insert just persisted.
Persisted(store) == store[Len(store)]

\* C11: every booking is persisted with totalCost = roomCost + packageCost,
\* where roomCost is the cottage's basePricePerNight times the nights of the
\* stay and packageCost is the package's flat price; and calculateBookingCost
\* answers with that roomCost, packageCost and totalCost, the same total as a
\* booking of the same cottage, package and dates carries.
C11_CostBreakdown ==
    [][ \A r \in Reqs :
          /\ (pc[r] = "insert" /\ pc'[r] = "reserve") =>
                LET b == Persisted(bookings')
                    roomCost == COTTAGES[b.cottageId].basePricePerNight
                                  * calculateNights(b.checkInDate, b.checkOutDate)
                    packageCost == PACKAGES[b.packageId].price
                IN b.totalCost = roomCost + packageCost
          /\ (pc[r] = "costPackage" /\ outcome'[r].success) =>
                LET q == req[r]
                    out == outcome'[r]
                IN /\ out.roomCost = COTTAGES[q.cottageId].basePricePerNight
                                       * calculateNights(q.checkInDate, q.checkOutDate)
                   /\ out.packageCost = PACKAGES[q.packageId].price
                   /\ out.totalCost = out.roomCost + out.packageCost
                   /\ \A i \in 1..Len(bookings) :
                         ( /\ bookings[i].cottageId = q.cottageId
                           /\ bookings[i].packageId = q.packageId
                           /\ bookings[i].checkInDate = q.checkInDate
                           /\ bookings[i].checkOutDate = q.checkOutDate )
                         => bookings[i].totalCost = out.totalCost ]_vars

\* A quote answered for the cottage, package and dates of a persisted
\* booking of two nights.
C11_Witness ==
    \E r \in Reqs, i \in 1..Len(bookings) :
        /\ outcome[r].success
        /\ outcome[r].nights = 2
        /\ outcome[r].roomCost = 2 * COTTAGES[bookings[i].cottageId].basePricePerNight
        /\ outcome[r].totalCost = bookings[i].totalCost
        /\ bookings[i].checkOutDate - bookings[i].checkInDate = 2 * TicksPerDay

\* C12: every booking is persisted with status Pending and paymentStatus
\* Pending, whatever the request carried.
C12_PersistedPending ==
    [][ \A r \in Reqs :
          (pc[r] = "insert" /\ pc'[r] = "reserve") =>
              /\ Len(bookings') = Len(bookings) + 1
              /\ Persisted(bookings').status = "Pending"
              /\ Persisted(bookings').paymentStatus = "Pending" ]_vars

\* A booking has just been persisted and its availability is not yet written.
C12_Witness ==
    \E r \in Reqs :
        /\ pc[r] = "reserve"
        /\ created[r] = Len(bookings)
        /\ bookings[created[r]].status = "Pending"
        /\ bookings[created[r]].paymentStatus = "Pending"

\* C13: every persisted booking has its check-out date strictly after its
\* check-in date: a request whose check-out is not after its check-in is
\* rejected and creates no booking.
C13_CheckOutAfterCheckIn ==
    \A i \in 1..Len(bookings) :
        bookings[i].checkOutDate > bookings[i].checkInDate

\* C14: every persisted booking has at least one adult and at most the
\* cottage's maxAdults, through the HTTP function and the web method alike.
C14_AdultsWithinCapacity ==
    \A i \in 1..Len(bookings) :
        /\ 1 <= bookings[i].adults
        /\ bookings[i].adults <= COTTAGES[bookings[i].cottageId].maxAdults

\* The store call of an updateBookingStatus request for an existing booking.
UpdatesExisting(r) ==
    /\ pc[r] = "updateStatus"
    /\ pc'[r] = "done"
    /\ req[r].bookingId \in 1..Len(bookings)

\* C15: whatever createBooking and updateBookingStatus calls have been made,
\* the status of every booking is one of Pending, Confirmed, Cancelled and
\* Completed.
C15_StatusWithinEnumeration ==
    \A i \in 1..Len(bookings) :
        bookings[i].status \in {BOOKING_STATUS[k] : k \in DOMAIN BOOKING_STATUS}

\* C16: updateBookingStatus on an existing booking is accepted from any
\* current status to any requested status, and the booking then has the
\* requested status; the call fails only when the store rejects it, and
\* then the booking keeps its status.
C16_AnyStatusToAnyStatus ==
    [][ \A r \in Calls :
          UpdatesExisting(r) =>
              IF outcome'[r].success
                THEN bookings'[req[r].bookingId].status = req[r].status
                ELSE /\ outcome'[r].error = "Failed to update booking status"
                     /\ bookings' = bookings ]_vars

\* A booking was cancelled by one call and confirmed by the next.
C16_Witness ==
    \E r \in Calls, i \in 1..Len(bookings) :
        /\ r + 1 \in Calls
        /\ outcome[r].success /\ outcome[r].bookingId = i
        /\ outcome[r].status = "Cancelled"
        /\ outcome[r + 1].success /\ outcome[r + 1].bookingId = i
        /\ outcome[r + 1].status = "Confirmed"
        /\ bookings[i].status = "Confirmed"

\* C17: updateBookingStatus changes the status (and updatedDate) of the
\* booking it names and nothing else: that booking's other fields and every
\* other booking stay as they were.
C17_OnlyStatusChanges ==
    [][ \A r \in Calls :
          (UpdatesExisting(r) /\ outcome'[r].success) =>
              bookings' = [bookings EXCEPT ![req[r].bookingId].status = req[r].status]
      ]_vars

\* The call before r was a successful updateBookingStatus of the same
\* booking to the same status.
RepeatsPreviousCall(r) ==
    /\ r - 1 \in Calls
    /\ outcome[r - 1].success
    /\ outcome[r - 1].bookingId = req[r].bookingId
    /\ outcome[r - 1].status = req[r].status

\* C18: a second updateBookingStatus(id, s) right after the first leaves the
\* store as the first left it, and no updateBookingStatus call changes the
\* number of bookings.
C18_UpdateIsIdempotent ==
    [][ \A r \in Calls :
          (pc[r] = "updateStatus" /\ pc'[r] = "done") =>
              /\ Len(bookings') = Len(bookings)
              /\ (RepeatsPreviousCall(r) /\ outcome'[r].success) =>
                     /\ bookings' = bookings
                     /\ availability' = availability
                     /\ safariBookings' = safariBookings ]_vars

\* The one booking was confirmed by two calls in a row.
C18_Witness ==
    \E r \in Calls :
        /\ r + 1 \in Calls
        /\ outcome[r].success /\ outcome[r + 1].success
        /\ outcome[r].bookingId = 1 /\ outcome[r + 1].bookingId = 1
        /\ outcome[r].status = "Confirmed" /\ outcome[r + 1].status = "Confirmed"
        /\ Len(bookings) = 1
        /\ bookings[1].status = "Confirmed"

\* C19: createSafariBookings(bookingId, entries) inserts one safari booking
\* per entry, in order, each with the given bookingId, status Pending and
\* the entry's type, or "Standard" when the entry has none; it inserts no
\* booking and no availability record.
C19_OneSafariPerEntry ==
    [][ \A r \in Calls :
          /\ (pc[r] = "insertSafaris" /\ outcome'[r].success) =>
                LET entries == req[r].safariData
                    n == Len(safariBookings)
                IN /\ Len(safariBookings') = n + Len(entries)
                   /\ SubSeq(safariBookings', 1, n) = safariBookings
                   /\ \A k \in 1..Len(entries) :
                         /\ safariBookings'[n + k].bookingId = req[r].bookingId
                         /\ safariBookings'[n + k].status = "Pending"
                         /\ safariBookings'[n + k].safariType =
                               IF entries[k].type = NULL THEN "Standard"
                                                         ELSE entries[k].type
          /\ pc[r] = "insertSafaris" =>
                (bookings' = bookings /\ availability' = availability) ]_vars

\* A call with one typed and one untyped entry has inserted two safari
\* bookings for booking 1.
C19_Witness ==
    \E r \in Calls :
        /\ outcome[r].success
        /\ Len(bookings) = 1
        /\ Len(safariBookings) = 2
        /\ safariBookings[1].bookingId = 1 /\ safariBookings[2].bookingId = 1
        /\ safariBookings[1].safariType = "Standard"
        /\ safariBookings[2].safariType = "Evening"

\* C20: the bookingId of every safari booking is the _id of an existing
\* booking: createSafariBookings with a bookingId that names no booking
\* creates nothing.
C20_SafariRefersToBooking ==
    \A k \in 1..Len(safariBookings) :
        safariBookings[k].bookingId \in 1..Len(bookings)

\* A createBooking request that names a cottage or a package the catalog
\* does not have.
NamesMissingRecord(b) ==
    /\ b.kind = "createBooking"
    /\ IsNull(COTTAGES, b.cottageId) \/ IsNull(PACKAGES, b.packageId)

\* C21: a createBooking request whose cottageId or packageId resolves to no
\* record never reaches the insert, none of its steps changes Bookings or
\* Availability, and it ends with success = false and an error.
C21_MissingRecordCreatesNothing ==
    [][ \A r \in Reqs :
          (NamesMissingRecord(req[r]) /\ Moves(r)) =>
            /\ bookings' = bookings
            /\ availability' = availability
            /\ pc'[r] \notin {"insert", "reserve"}
            /\ pc'[r] = "done" =>
                 (~outcome'[r].success /\ outcome'[r].error # NULL) ]_vars

\* A request for an unknown package has failed at the cost calculation.
C21_Witness ==
    \E r \in Reqs :
        /\ pc[r] = "done"
        /\ ~outcome[r].success
        /\ outcome[r].error = "TypeError"
        /\ bookings = <<>> /\ availability = {}

\* C22: a createBooking request that lacks one of cottageId, packageId,
\* checkInDate, checkOutDate, adults, customerInfo is rejected by the HTTP
\* function and by the web method before any store call: no request without
\* customerInfo gets past the guard and no booking is persisted without it.
C22_MissingInputRejected ==
    /\ \A r \in Reqs : req[r].kind = "createBooking" => req[r].customerInfo
    /\ \A i \in 1..Len(bookings) : bookings[i].customerInfo

\* The position of a request on its way from arrival to response.
Rank(label) ==
    CASE label = "idle" -> 0
      [] label = "checkQuery" -> 1
      [] label = "checkCottage" -> 2
      [] label = "getCottage" -> 3
      [] label = "getPackage" -> 4
      [] label = "insert" -> 5
      [] label = "reserve" -> 6
      [] label = "done" -> 7

\* A response body: a boolean success, and an error string exactly when
\* success is false.
WellFormedResponse(out) ==
    /\ out.success \in BOOLEAN
    /\ out.success => out.error = NULL
    /\ ~out.success => (out.error # NULL /\ out.error # "")

\* C23: every step of an endpoint invocation moves it forward, so no store
\* call is made twice, and the invocation ends with a response that carries
\* a boolean success and, on a failed validation or store call, success =
\* false with an error string; a failed store call ends the invocation at
\* once.
C23_AlwaysAResponseNeverARetry ==
    [][ \A r \in Reqs :
          Moves(r) =>
            /\ Rank(pc'[r]) > Rank(pc[r])
            /\ pc'[r] = "done" => WellFormedResponse(outcome'[r])
            /\ (pc'[r] = "done" /\ ~outcome'[r].success) =>
                  (bookings' = bookings /\ availability' = availability) ]_vars

\* A request whose last store call failed has been answered with the error.
C23_Witness ==
    \E r \in Reqs :
        /\ pc[r] = "done"
        /\ ~outcome[r].success
        /\ outcome[r].error = "Failed to update availability"
        /\ Len(bookings) = 1 /\ availability = {}

\* C24: an Availability record has a bookingId exactly when it is
\* unavailable, and that bookingId is the _id of a booking in the Bookings
\* collection for the same cottageId.
C24_RecordRefersToItsBooking ==
    \A a \in availability :
        /\ (a.bookingId # 0) <=> ~a.isAvailable
        /\ a.bookingId # 0 =>
              /\ a.bookingId \in 1..Len(bookings)
              /\ "cottageId" \in DOMAIN bookings[a.bookingId]
              /\ bookings[a.bookingId].cottageId = a.cottageId

\* C25: no step removes or changes an Availability record, so a date that
\* is unavailable stays unavailable; updateBookingStatus, to Cancelled or to
\* anything else, leaves Availability as it is, and a createBooking request
\* whose range holds an unavailable record, of a cancelled booking or not,
\* is rejected.
C25_AvailabilityIsMonotone ==
    [][ /\ availability \subseteq availability'
        /\ \A r \in Calls :
              /\ pc[r] = "updateStatus" => availability' = availability
              /\ ( /\ pc[r] = "checkQuery" /\ Moves(r)
                    /\ RecordsInRange(availability, req[r].cottageId,
                                      req[r].checkInDate, req[r].checkOutDate) # {} )
                   => (pc'[r] = "done" /\ ~outcome'[r].success) ]_vars

\* A booking was created and then cancelled, and the next request for its
\* cottage and dates was turned down for the conflict.
C25_Witness ==
    \E r \in Calls :
        /\ r + 2 \in Calls
        /\ outcome[r].success /\ outcome[r].bookingId = 1 /\ outcome[r].status = NULL
        /\ outcome[r + 1].success /\ outcome[r + 1].bookingId = 1
        /\ outcome[r + 1].status = "Cancelled"
        /\ bookings[1].status = "Cancelled"
        /\ pc[r + 2] = "done"
        /\ outcome[r + 2].error = ConflictError
        /\ \E a \in availability : a.bookingId = 1

\* The Availability record lies in the range of the request or booking b.
Overlaps(a, b) ==
    /\ a.cottageId = b.cottageId
    /\ ~a.isAvailable
    /\ b.checkInDate <= a.date
    /\ a.date < b.checkOutDate

\* The request r and every booking made so far span a calendar night.
NightsOnly(r) ==
    /\ SpansANight(req[r])
    /\ \A i \in 1..Len(bookings) : SpansANight(bookings[i])

\* Two stays in the same cottage have a moment in common.
Intersect(b1, b2) ==
    /\ b1.cottageId = b2.cottageId
    /\ b1.checkInDate < b2.checkOutDate
    /\ b2.checkInDate < b1.checkOutDate

\* C26: concurrent createBooking requests for different cottages, or for
\* disjoint date ranges of one cottage, do not interfere.  A request is
\* turned down for a conflict only because of a booking of the same cottage
\* whose range intersects its own, every record lies in the range of the
\* booking it names, and the records a request writes carry the id of its
\* own booking and nothing else; so a request whose range no other booking
\* touches succeeds in every interleaving in which its store calls succeed
\* (stated for stays that end on a later calendar day than they begin).
C26_DisjointRequestsDoNotInterfere ==
    [][ /\ \A a \in availability :
              /\ a.bookingId \in 1..Len(bookings)
              /\ Overlaps(a, bookings[a.bookingId])
        /\ \A r \in Reqs :
              /\ ( /\ pc[r] = "checkQuery" /\ pc'[r] = "done"
                    /\ outcome'[r].error = ConflictError
                    /\ NightsOnly(r) )
                   => \E a \in availability :
                         Intersect(bookings[a.bookingId], req[r])
              /\ (pc[r] = "reserve" /\ outcome'[r].success) =>
                    /\ bookings[created[r]].cottageId = req[r].cottageId
                    /\ bookings[created[r]].checkInDate = req[r].checkInDate
                    /\ bookings[created[r]].checkOutDate = req[r].checkOutDate
                    /\ \A q \in Reqs : q # r => created[q] # created[r]
                    /\ \A a \in availability' \ availability :
                          a.bookingId = created[r] /\ Overlaps(a, req[r]) ]_vars

\* A createBooking request for a cottage whose isActive flag is false.
ForInactiveCottage(b) ==
    /\ b.kind = "createBooking"
    /\ b.cottageId \in DOMAIN COTTAGES
    /\ ~COTTAGES[b.cottageId].isActive

\* C27: no booking is created for a cottage that is not active: the
\* availability check of the createBooking endpoints reports the cottage as
\* not available and the request ends there, before the service's
\* createBooking and its insert.
C27_NoBookingOfInactiveCottage ==
    [][ /\ \A i \in 1..Len(bookings') : COTTAGES[bookings'[i].cottageId].isActive
        /\ \A r \in Reqs :
              (ForInactiveCottage(req[r]) /\ Moves(r)) =>
                /\ pc'[r] \in {"checkCottage", "done"}
                /\ pc'[r] = "done" => ~outcome'[r].success
                /\ pc[r] = "checkCottage" =>
                      outcome'[r].error \in {ConflictError, FailureMessage("checkCottage")}
      ]_vars

\* A request for the inactive cottage has passed the Availability query and
\* is at the cottage check that turns it down.
C27_Witness ==
    \E r \in Reqs :
        /\ ForInactiveCottage(req[r])
        /\ pc[r] = "checkCottage"
        /\ bookings = <<>> /\ availability = {}

\* The cottage and dates now in bookingData.
Selection ==
    [cottageId |-> form.cottageId, checkInDate |-> form.checkInDate,
     checkOutDate |-> form.checkOutDate]

\* C28: the wizard moves from step 1 to step 2 only when an availability
\* result is stored and the cottage and dates in bookingData are those of
\* the most recent successful check.
C28_AdvanceOnlyOnCheckedSelection ==
    [][ (form.currentStep = 1 /\ form'.currentStep = 2)
          => (form.availabilityResult /\ form.checkedFor = Selection) ]_vars

\* The most safari entries the selected package and stay allow.
SafariLimit ==
    IF form.packageId \in DOMAIN PACKAGES /\ PACKAGES[form.packageId].includesSafari
      THEN LET count  == PACKAGES[form.packageId].safariCount
               nights == calculateNights(form.checkInDate, form.checkOutDate)
           IN  IF count < nights THEN count ELSE nights
      ELSE 0

\* The step on which the form sends its createBooking request.
Submits == form.awaiting = "none" /\ form'.awaiting = "booking"

\* C29: when the form is submitted, safariData holds at most
\* min(safariCount, nights) entries of the selected package, and none when
\* the package does not include a safari.
C29_SafariEntriesWithinLimit ==
    [][ Submits => Len(form.safariData) <= SafariLimit ]_vars

\* The requests that arrive at createSafariBookings on this step.
SafariRequestsSent == {r \in Calls : pc[r] = "idle" /\ pc'[r] = "insertSafaris"}

\* C30: a createSafariBookings request is sent only on a successful
\* createBooking response and carries the id of the booking just created; a
\* failed createBooking response sends no request; the safari response
\* leaves the bookings and the availability records as they are and the
\* success message is shown whatever the response says.
C30_SafarisFollowTheBooking ==
    [][ /\ \A r \in SafariRequestsSent :
             /\ form.awaiting = "booking"
             /\ outcome[form.slot].success
             /\ req'[r].bookingId = outcome[form.slot].bookingId
             /\ req'[r].bookingId \in 1..Len(bookings)
             /\ req'[r].safariData = form.safariData
        /\ (form.awaiting = "booking" /\ form'.awaiting # "booking"
              /\ ~outcome[form.slot].success)
             => (pc' = pc /\ req' = req /\ form'.shown = "form")
        /\ (form.awaiting = "safaris" /\ form'.awaiting # "safaris")
             => /\ bookings' = bookings
                /\ availability' = availability
                /\ form'.shown = "success" ]_vars

\* The safari request of a created booking failed: the booking is kept, no
\* safari booking exists and the success message is shown.
C30_Witness ==
    /\ form.shown = "success"
    /\ Len(form.safariData) > 0
    /\ Len(bookings) = 1
    /\ safariBookings = <<>>
    /\ availability # {}


====
